---- MODULE Spec2Model ----
(***************************************************************************)
(* Model of hw/misc/peripheral-register.c: a peripheral register with      *)
(* optional bitfields, its realize() pass (mask validation and the         *)
(* auto_bits rule table), reset, and the byte-level read/write callbacks.  *)
(*                                                                         *)
(* A uint64_t is modelled as the set of its one-bits, a subset of 0..63:   *)
(* & is \cap, | is \cup, ~ is complement in 0..63, shifts move positions   *)
(* and drop what leaves 0..63.  A uint8_t is a subset of 0..7.             *)
(***************************************************************************)
EXTENDS Integers, Sequences, FiniteSets, TLC

VARIABLES
    info,                \* PeripheralRegisterInfo the register was built from
    is_little_endian,    \* PeripheralState.is_little_endian (guest byte order)
    host_little_endian,  \* __BYTE_ORDER__ == __ORDER_LITTLE_ENDIAN__ of the build
    realized,            \* lifecycle: "configured", "realized", "operational",
                         \*            "failed" (errp set), "crashed"
    size_bits,           \* PeripheralRegisterState.size_bits
    reset_value,         \* PeripheralRegisterState.reset_value
    readable_bits,       \* PeripheralRegisterState.readable_bits
    writable_bits,       \* PeripheralRegisterState.writable_bits
    is_readable,         \* PeripheralRegisterState.is_readable
    is_writable,         \* PeripheralRegisterState.is_writable
    bitfields,           \* the register's RegisterBitfieldState children, in order
    auto_bits,           \* PeripheralRegisterState.auto_bits (<< >> is NULL)
    value,               \* PeripheralRegisterState.value
    last_access,         \* the callback that ran last and what it returned
    steps                \* number of runtime accesses made so far

vars == << info, is_little_endian, host_little_endian, realized, size_bits,
           reset_value, readable_bits, writable_bits, is_readable, is_writable,
           bitfields, auto_bits, value, last_access, steps >>

\* Everything realize() may assign.
realizeVars == << size_bits, reset_value, readable_bits, writable_bits, auto_bits >>
\* Everything fixed by construction.
constructVars == << info, is_little_endian, host_little_endian, is_readable,
                    is_writable, bitfields >>

(***************************************************************************)
(* Bounds of the model.                                                    *)
(***************************************************************************)
\* Number of runtime accesses (write, read, getValue) in one run.
MaxSteps == 2

(***************************************************************************)
(* uint64_t / uint8_t arithmetic on bit sets.                              *)
(***************************************************************************)
Bits64 == 0 .. 63
Bits8 == 0 .. 7

Not64(x) == Bits64 \ x

\* x << n for 0 <= n < 64
Shl(x, n) == { b + n : b \in x } \cap Bits64

\* x >> n for 0 <= n < 64
Shr(x, n) == { b - n : b \in x } \cap Bits64

\* The byte n (0..255) as a uint8_t.
Byte(n) == { b \in Bits8 : (n \div (2 ^ b)) % 2 = 1 }

\* The uint64_t whose byte of significance k (0 = least) is Byte(s[k+1]).
U64(s) == UNION { { 8 * (k - 1) + b : b \in Byte(s[k]) } : k \in 1 .. Len(s) }

(***************************************************************************)
(* Outcomes of the undefined behaviour the callbacks can run into.         *)
(***************************************************************************)
\* b[8] of an EndiannessUnion is one byte past the object: a load from it
\* yields whatever the neighbouring stack byte holds.
StrayBytes == { Byte(0), Byte(165), Byte(255) }

\* x >> n with a negative int n: the shifter either keeps the low six bits of
\* the count (x86, AArch64) or treats the count as a large one and yields 0
\* (ARM32 register shifts, PowerPC srd).
NegShiftOutcomes == { "count_mod_64", "count_saturates" }

\* strcmp(NULL, name): a fault, or a comparison with whatever is mapped at
\* address 0, which does not spell a bitfield name.
StrcmpNullOutcomes == { "fault", "no_match" }

(***************************************************************************)
(* EndiannessUnion: a uint64_t overlapped with uint8_t b[8].               *)
(***************************************************************************)
\* The bit positions of the byte of significance p (0 = least).
ByteLane(p) == (8 * p) .. (8 * p + 7)

\* Significance (0 = least) of the byte the build stores at b[k].
BytePos(k) == IF host_little_endian THEN k ELSE 7 - k

\* u.b[k] as an rvalue; stray is what a load past the union returns.
UnionGet(ll, k, stray) ==
    IF k \in 0 .. 7
        THEN { b - 8 * BytePos(k) : b \in ll \cap ByteLane(BytePos(k)) }
        ELSE stray

\* u.ll after u.b[k] = byte; a store past the union leaves u.ll as it was.
UnionSet(ll, k, byte) ==
    IF k \in 0 .. 7
        THEN (ll \ ByteLane(BytePos(k))) \cup { 8 * BytePos(k) + b : b \in byte }
        ELSE ll

(***************************************************************************)
(* peripheral_register_read_callback                                       *)
(***************************************************************************)
\* Index into result.b[] written at loop step i.
ReadDstIndex(i) == IF host_little_endian THEN i ELSE 8 - i

\* Index into tmp.b[] read at loop step i.
ReadSrcIndex(i, offset) == IF is_little_endian THEN i + offset ELSE 8 - (i + offset)

RECURSIVE ReadLoop(_, _, _, _, _, _)
ReadLoop(tmp, res, offset, size, i, stray) ==
    IF i >= size
        THEN res
        ELSE ReadLoop(tmp,
                      UnionSet(res, ReadDstIndex(i),
                               UnionGet(tmp, ReadSrcIndex(i, offset), stray)),
                      offset, size, i + 1, stray)

\* The callback's return value when state->value is v.
ReadValue(v, offset, size, stray) ==
    ReadLoop(v \cap readable_bits, {}, offset, size, 0, stray)

peripheral_register_read_callback(offset, size, stray) ==
    ReadValue(value, offset, size, stray)

\* peripheral_register_get_value
peripheral_register_get_value == value \cap readable_bits

(***************************************************************************)
(* peripheral_register_write_callback                                      *)
(***************************************************************************)
\* WriteDstIndex with the access offset left out.
WriteDstIndex_NoOffset(i, offset) == IF is_little_endian THEN i ELSE 8 - i

\* Index into new_value.b[] written at loop step i.
WriteDstIndex(i, offset) == IF is_little_endian THEN i + offset ELSE 8 - (i + offset)

\* Index into in_value.b[] read at loop step i.
WriteSrcIndex(i) == IF host_little_endian THEN i ELSE 8 - i

RECURSIVE WriteLoop(_, _, _, _, _, _)
WriteLoop(in_value, new_value, offset, size, i, stray) ==
    IF i >= size
        THEN new_value
        ELSE WriteLoop(in_value,
                       UnionSet(new_value, WriteDstIndex(i, offset),
                                UnionGet(in_value, WriteSrcIndex(i), stray)),
                       offset, size, i + 1, stray)

\* MergeWritable with the writable mask left out.
MergeWritable_Unmasked(old, new_value) == new_value

\* tmp = state->value & ~writable_bits; tmp |= new_value.ll & writable_bits
MergeWritable(old, new_value) ==
    (old \cap Not64(writable_bits)) \cup (new_value \cap writable_bits)

\* x >> shift where shift < 0.
ShrNegative(x, shift, ub) ==
    IF ub = "count_mod_64" THEN Shr(x, shift % 64) ELSE {}

ApplyFollows(tmp, ab, ub) ==
    IF ab.shift > 0
        THEN LET t == tmp \cap Not64(Shl(ab.mask, ab.shift))
             IN  t \cup Shl(t \cap ab.mask, ab.shift)
    ELSE IF ab.shift < 0
        THEN LET t == tmp \cap Not64(ShrNegative(ab.mask, ab.shift, ub))
             IN  t \cup ShrNegative(t \cap ab.mask, ab.shift, ub)
    ELSE tmp

ApplyClearedBy(tmp, ab, ub) ==
    IF ab.shift > 0
        THEN tmp \cap Not64(Shl(tmp \cap ab.mask, ab.shift))
    ELSE IF ab.shift < 0
        THEN tmp \cap Not64(ShrNegative(tmp \cap ab.mask, ab.shift, ub))
    ELSE tmp

ApplySetBy(tmp, ab, ub) ==
    IF ab.shift > 0
        THEN tmp \cup Shl(tmp \cap ab.mask, ab.shift)
    ELSE IF ab.shift < 0
        THEN tmp \cup ShrNegative(tmp \cap ab.mask, ab.shift, ub)
    ELSE tmp

ApplyAutoBit(tmp, ab, ub) ==
    IF ab.type = "FOLLOWS" THEN ApplyFollows(tmp, ab, ub)
    ELSE IF ab.type = "CLEARED_BY" THEN ApplyClearedBy(tmp, ab, ub)
    ELSE IF ab.type = "SET_BY" THEN ApplySetBy(tmp, ab, ub)
    ELSE tmp

\* for (auto_bits = state->auto_bits; auto_bits && auto_bits->mask; auto_bits++)
RECURSIVE ApplyAutoBits(_, _, _, _)
ApplyAutoBits(tmp, table, k, ub) ==
    IF k > Len(table) \/ table[k].mask = {}
        THEN tmp
        ELSE ApplyAutoBits(ApplyAutoBit(tmp, table[k], ub), table, k + 1, ub)

\* The value the write commits.
peripheral_register_write_callback(offset, size, in, stray, ub) ==
    LET new_value == WriteLoop(in, value, offset, size, 0, stray)
    IN  ApplyAutoBits(MergeWritable(value, new_value), auto_bits, 1, ub)

(***************************************************************************)
(* realize(): peripheral_register_validate_bitfields                       *)
(***************************************************************************)
\* peripheral_register_validate_bitfields with the overlap test left out.
validate_bitfields_NoOverlapTest(bifi, validate_tmp) ==
    [validate_tmp EXCEPT
        !.mask = @ \cup bifi.mask,
        !.readable_bits = IF bifi.is_readable THEN @ \cup bifi.mask ELSE @,
        !.writable_bits = IF bifi.is_writable THEN @ \cup bifi.mask ELSE @,
        !.reset_value = (@ \cap Not64(bifi.mask))
                        \cup (Shl(bifi.reset_value, bifi.shift) \cap bifi.mask)]

\* One call of the child callback on bitfield bifi; ret 1 stops the iteration.
peripheral_register_validate_bitfields(bifi, validate_tmp) ==
    IF bifi.mask \cap validate_tmp.mask # {}
        THEN [validate_tmp EXCEPT !.ret = 1]
        ELSE [validate_tmp EXCEPT
                !.mask = @ \cup bifi.mask,
                !.readable_bits = IF bifi.is_readable THEN @ \cup bifi.mask ELSE @,
                !.writable_bits = IF bifi.is_writable THEN @ \cup bifi.mask ELSE @,
                !.reset_value = (@ \cap Not64(bifi.mask))
                                \cup (Shl(bifi.reset_value, bifi.shift) \cap bifi.mask)]

\* object_child_foreach(dev, peripheral_register_validate_bitfields, tmp)
RECURSIVE ValidateChildren(_, _, _)
ValidateChildren(children, validate_tmp, k) ==
    IF k > Len(children)
        THEN validate_tmp
        ELSE LET t == peripheral_register_validate_bitfields(children[k], validate_tmp)
             IN  IF t.ret # 0 THEN t ELSE ValidateChildren(children, t, k + 1)

\* g_malloc0(sizeof(PeripheralRegisterValidateTmp))
ValidateTmp0 ==
    [mask |-> {}, readable_bits |-> {}, writable_bits |-> {}, reset_value |-> {},
     ret |-> 0]

(***************************************************************************)
(* realize(): peripheral_register_create_auto_array                        *)
(***************************************************************************)
\* A const char * property that was never set.
NULL == ""

\* object_child_foreach(reg, peripheral_register_find_bifi, auto_tmp): the
\* index of the first child named to_find, 0 for found_bifi == NULL, -1 when
\* strcmp(NULL, ...) faults.
peripheral_register_find_bifi(children, to_find, ub) ==
    IF to_find = NULL
        THEN IF Len(children) > 0 /\ ub = "fault" THEN -1 ELSE 0
        ELSE IF \E k \in 1 .. Len(children) : children[k].name = to_find
                THEN CHOOSE k \in 1 .. Len(children) :
                        /\ children[k].name = to_find
                        /\ \A j \in 1 .. (k - 1) : children[j].name # to_find
                ELSE 0

\* The name the sibling search is given for bitfield bifi.
ToFind(bifi) ==
    IF bifi.follows # NULL THEN bifi.follows
    ELSE IF bifi.cleared_by # NULL THEN bifi.cleared_by
    ELSE bifi.cleared_by    \* the set_by branch: to_find_bifi = bifi->cleared_by

\* The pair of mask arrays the bitfield's relationship accumulates into.
LeftArray(bifi) ==
    IF bifi.follows # NULL THEN "left_shift_follows_masks"
    ELSE IF bifi.cleared_by # NULL THEN "left_shift_cleared_by_masks"
    ELSE "left_shift_set_by_masks"

RightArray(bifi) ==
    IF bifi.follows # NULL THEN "right_shift_follows_masks"
    ELSE IF bifi.cleared_by # NULL THEN "right_shift_cleared_by_masks"
    ELSE "right_shift_set_by_masks"

\* One call of the child callback on bitfield bifi.
peripheral_register_create_auto_array(children, bifi, auto_tmp, ub) ==
    IF bifi.follows = NULL /\ bifi.cleared_by = NULL /\ bifi.set_by = NULL
        THEN auto_tmp
        ELSE LET found == peripheral_register_find_bifi(children, ToFind(bifi), ub)
                 delta_shift == bifi.first_bit - children[found].first_bit
             IN  IF found = -1 THEN [auto_tmp EXCEPT !.fault = TRUE, !.ret = 1]
                 ELSE IF found = 0 THEN [auto_tmp EXCEPT !.ret = 1]
                 ELSE IF delta_shift > 0
                     THEN [auto_tmp EXCEPT
                             ![LeftArray(bifi)][delta_shift] = @ \cup children[found].mask]
                 ELSE IF delta_shift < 0
                     THEN [auto_tmp EXCEPT
                             ![RightArray(bifi)][-delta_shift] = @ \cup children[found].mask]
                 ELSE auto_tmp

\* object_child_foreach(dev, peripheral_register_create_auto_array, auto_tmp)
RECURSIVE CreateAutoArrayChildren(_, _, _, _)
CreateAutoArrayChildren(children, auto_tmp, k, ub) ==
    IF k > Len(children)
        THEN auto_tmp
        ELSE LET t == peripheral_register_create_auto_array(children, children[k],
                                                            auto_tmp, ub)
             IN  IF t.ret # 0 THEN t
                 ELSE CreateAutoArrayChildren(children, t, k + 1, ub)

\* g_malloc0(sizeof(PeripheralRegisterAutoTmp))
AutoTmp0 ==
    [left_shift_follows_masks |-> [i \in 0 .. 63 |-> {}],
     right_shift_follows_masks |-> [i \in 0 .. 63 |-> {}],
     left_shift_cleared_by_masks |-> [i \in 0 .. 63 |-> {}],
     right_shift_cleared_by_masks |-> [i \in 0 .. 63 |-> {}],
     left_shift_set_by_masks |-> [i \in 0 .. 63 |-> {}],
     right_shift_set_by_masks |-> [i \in 0 .. 63 |-> {}],
     ret |-> 0, fault |-> FALSE]

\* One PeripheralRegisterAutoBits entry, emitted when its mask is not 0.
AutoBitsEntry(mask, shift, type) ==
    IF mask # {} THEN << [mask |-> mask, shift |-> shift, type |-> type] >> ELSE << >>

\* AutoBitsAt with the CLEARED_BY entries emitted ahead of the FOLLOWS ones.
AutoBitsAt_ClearedByFirst(auto_tmp, i) ==
    AutoBitsEntry(auto_tmp.left_shift_cleared_by_masks[i], i, "CLEARED_BY")
    \o AutoBitsEntry(auto_tmp.right_shift_cleared_by_masks[i], -i, "CLEARED_BY")
    \o AutoBitsEntry(auto_tmp.left_shift_follows_masks[i], i, "FOLLOWS")
    \o AutoBitsEntry(auto_tmp.right_shift_follows_masks[i], -i, "FOLLOWS")
    \o AutoBitsEntry(auto_tmp.left_shift_set_by_masks[i], i, "SET_BY")
    \o AutoBitsEntry(auto_tmp.right_shift_set_by_masks[i], -i, "SET_BY")

\* Body of the second for (i = 0; i < 64; ++i) loop of realize().
AutoBitsAt(auto_tmp, i) ==
    AutoBitsEntry(auto_tmp.left_shift_follows_masks[i], i, "FOLLOWS")
    \o AutoBitsEntry(auto_tmp.right_shift_follows_masks[i], -i, "FOLLOWS")
    \o AutoBitsEntry(auto_tmp.left_shift_cleared_by_masks[i], i, "CLEARED_BY")
    \o AutoBitsEntry(auto_tmp.right_shift_cleared_by_masks[i], -i, "CLEARED_BY")
    \o AutoBitsEntry(auto_tmp.left_shift_set_by_masks[i], i, "SET_BY")
    \o AutoBitsEntry(auto_tmp.right_shift_set_by_masks[i], -i, "SET_BY")

RECURSIVE AutoBitsFrom(_, _)
AutoBitsFrom(auto_tmp, i) ==
    IF i >= 64 THEN << >> ELSE AutoBitsAt(auto_tmp, i) \o AutoBitsFrom(auto_tmp, i + 1)

\* The table realize() installs: NULL when count == 0, else the entries and
\* the terminator (mask 0, shift 0; its type is never assigned).
BuildAutoBits(auto_tmp) ==
    LET entries == AutoBitsFrom(auto_tmp, 0)
    IN  IF Len(entries) = 0
            THEN << >>
            ELSE Append(entries, [mask |-> {}, shift |-> 0, type |-> "UNSET"])

(***************************************************************************)
(* Construction: peripheral_register_new and the bitfield children.        *)
(***************************************************************************)
\* The mask a bitfield's own realize() computes: the bits first_bit .. last_bit.
BitfieldMask(first_bit, last_bit) == first_bit .. last_bit

\* The bitfield's own realize(): mask and shift from its bit range, and, when
\* both flags were left false, the register's flags.
register_bitfield_realize(bifi, reg_is_readable, reg_is_writable) ==
    [bifi EXCEPT
        !.mask = BitfieldMask(bifi.first_bit, bifi.last_bit),
        !.shift = bifi.first_bit,
        !.is_readable = IF ~bifi.is_readable /\ ~bifi.is_writable
                            THEN reg_is_readable ELSE @,
        !.is_writable = IF ~bifi.is_readable /\ ~bifi.is_writable
                            THEN reg_is_writable ELSE @]

\* The RegisterBitfieldState child peripheral_register_new creates, sets the
\* properties of and realizes, for one RegisterBitfieldInfo.
register_bitfield_new(bifi_info, reg_is_readable, reg_is_writable) ==
    register_bitfield_realize(
        [name |-> bifi_info.name,
         first_bit |-> bifi_info.first_bit,
         last_bit |-> bifi_info.last_bit,
         mask |-> {},
         shift |-> 0,
         reset_value |-> bifi_info.reset_value,
         is_readable |-> "READ" \in bifi_info.rw_mode,
         is_writable |-> "WRITE" \in bifi_info.rw_mode,
         follows |-> bifi_info.follows,
         cleared_by |-> bifi_info.cleared_by,
         set_by |-> bifi_info.set_by],
        reg_is_readable, reg_is_writable)

\* The register state peripheral_register_new leaves behind; "writable-bits"
\* is never set from the info and stays at the instance_init value 0.
peripheral_register_new(i, register_size_bytes) ==
    LET readable == IF i.rw_mode # {} THEN "READ" \in i.rw_mode ELSE TRUE
        writable == IF i.rw_mode # {} THEN "WRITE" \in i.rw_mode ELSE TRUE
    IN  [reset_value |-> i.reset_value,
         readable_bits |-> i.readable_bits,
         writable_bits |-> {},
         size_bits |-> IF i.size_bits # 0 THEN i.size_bits ELSE register_size_bytes * 8,
         is_readable |-> readable,
         is_writable |-> writable,
         bitfields |-> [k \in 1 .. Len(i.bitfields) |->
                           register_bitfield_new(i.bitfields[k], readable, writable)],
         value |-> {},
         auto_bits |-> << >>]

(***************************************************************************)
(* The register definitions the model is run on.                           *)
(***************************************************************************)
Bifi(name, first_bit, last_bit, reset, rw_mode, follows, cleared_by, set_by) ==
    [name |-> name, first_bit |-> first_bit, last_bit |-> last_bit,
     reset_value |-> Byte(reset), rw_mode |-> rw_mode,
     follows |-> follows, cleared_by |-> cleared_by, set_by |-> set_by]

Reg(size, reset, readable, writable, rw_mode, bfs, parent_size) ==
    [size_bits |-> size, reset_value |-> reset, readable_bits |-> readable,
     writable_bits |-> writable, rw_mode |-> rw_mode, bitfields |-> bfs,
     register_size_bytes |-> parent_size]

ResetPattern == U64(<< 120, 86, 52, 18 >>)           \* 0x12345678
HalfMask == U64(<< 255, 0, 255, 0 >>)                \* 0x00FF00FF
LowMask == U64(<< 255, 255 >>)                       \* 0x0000FFFF

\* Registers without bitfields: default read/write; read-only with the
\* width left to the peripheral; explicit readable and writable masks.
PlainInfos ==
    { Reg(32, ResetPattern, {}, {}, {}, << >>, 4),
      Reg(0, U64(<< 1, 2, 3, 4, 5, 6, 7, 8 >>), {}, {}, { "READ" }, << >>, 0),
      Reg(32, ResetPattern, HalfMask, LowMask, {}, << >>, 4) }

\* Registers whose bitfields pass validation.
BitfieldInfos ==
    { \* B below A follows A (negative delta)
      Reg(8, {}, {}, {}, {},
          << Bifi("A", 4, 7, 0, {}, NULL, NULL, NULL),
             Bifi("B", 0, 3, 0, {}, "A", NULL, NULL) >>, 4),
      \* read-only B above A follows A (positive delta)
      Reg(8, {}, {}, {}, {},
          << Bifi("A", 0, 3, 3, {}, NULL, NULL, NULL),
             Bifi("B", 4, 7, 5, { "READ" }, "A", NULL, NULL) >>, 4),
      \* read-only register with a follows pair
      Reg(8, {}, {}, {}, { "READ" },
          << Bifi("A", 0, 3, 3, {}, NULL, NULL, NULL),
             Bifi("B", 4, 7, 0, {}, "A", NULL, NULL) >>, 4),
      \* B narrower than the A it follows, below a read-only C, in a 16-bit
      \* register whose high byte belongs to no bitfield
      Reg(16, U64(<< 0, 90 >>), {}, {}, {},
          << Bifi("A", 0, 3, 0, {}, NULL, NULL, NULL),
             Bifi("B", 4, 5, 0, {}, "A", NULL, NULL),
             Bifi("C", 6, 7, 2, { "READ" }, NULL, NULL, NULL) >>, 4),
      \* chain with one shift distance: C follows B, B follows A
      Reg(8, {}, {}, {}, {},
          << Bifi("A", 0, 1, 0, {}, NULL, NULL, NULL),
             Bifi("B", 2, 3, 0, {}, "A", NULL, NULL),
             Bifi("C", 4, 5, 0, {}, "B", NULL, NULL) >>, 4),
      \* chain with growing shift distances
      Reg(8, {}, {}, {}, {},
          << Bifi("A", 0, 1, 0, {}, NULL, NULL, NULL),
             Bifi("B", 2, 3, 0, {}, "A", NULL, NULL),
             Bifi("C", 6, 7, 0, {}, "B", NULL, NULL) >>, 4),
      \* two independent pairs with one shift distance
      Reg(8, {}, {}, {}, {},
          << Bifi("A", 0, 1, 0, {}, NULL, NULL, NULL),
             Bifi("B", 2, 3, 0, {}, "A", NULL, NULL),
             Bifi("C", 4, 5, 0, {}, NULL, NULL, NULL),
             Bifi("D", 6, 7, 0, {}, "C", NULL, NULL) >>, 4),
      \* C above D cleared by D; the register's own reset value sets C
      Reg(8, Byte(12), {}, {}, {},
          << Bifi("D", 0, 1, 0, {}, NULL, NULL, NULL),
             Bifi("C", 2, 3, 0, {}, NULL, "D", NULL) >>, 4),
      \* C below D cleared by D
      Reg(8, {}, {}, {}, {},
          << Bifi("C", 0, 0, 0, {}, NULL, "D", NULL),
             Bifi("D", 1, 1, 0, {}, NULL, NULL, NULL) >>, 4),
      \* write-only register covered by one bitfield
      Reg(8, Byte(90), {}, {}, { "WRITE" },
          << Bifi("A", 0, 7, 0, {}, NULL, NULL, NULL) >>, 4),
      \* S above T set by T
      Reg(8, {}, {}, {}, {},
          << Bifi("T", 0, 0, 0, {}, NULL, NULL, NULL),
             Bifi("S", 1, 1, 0, {}, NULL, NULL, "T") >>, 4),
      \* three rules at one distance: D cleared by B from below, B follows A
      \* from below, C follows A from above
      Reg(8, {}, {}, {}, {},
          << Bifi("D", 6, 7, 0, {}, NULL, "B", NULL),
             Bifi("B", 4, 5, 0, {}, "A", NULL, NULL),
             Bifi("C", 0, 1, 0, {}, "A", NULL, NULL),
             Bifi("A", 2, 3, 0, {}, NULL, NULL, NULL) >>, 4) }

\* Registers whose definition is in error.
BadInfos ==
    { \* overlapping bit ranges
      Reg(8, {}, {}, {}, {},
          << Bifi("A", 0, 3, 0, {}, NULL, NULL, NULL),
             Bifi("B", 2, 5, 0, {}, NULL, NULL, NULL) >>, 4),
      \* overlap among three, the first two disjoint
      Reg(8, {}, {}, {}, {},
          << Bifi("A", 0, 1, 0, {}, NULL, NULL, NULL),
             Bifi("B", 4, 5, 0, {}, NULL, NULL, NULL),
             Bifi("C", 1, 2, 0, {}, NULL, NULL, NULL) >>, 4),
      \* relationships naming a sibling that does not exist
      Reg(8, {}, {}, {}, {},
          << Bifi("A", 0, 3, 0, {}, NULL, NULL, NULL),
             Bifi("B", 4, 7, 0, {}, "X", NULL, NULL) >>, 4),
      Reg(8, {}, {}, {}, {},
          << Bifi("A", 0, 3, 0, {}, NULL, NULL, NULL),
             Bifi("B", 4, 7, 0, {}, NULL, "X", NULL) >>, 4),
      Reg(8, {}, {}, {}, {},
          << Bifi("A", 0, 3, 0, {}, NULL, NULL, NULL),
             Bifi("B", 4, 7, 0, {}, NULL, NULL, "X") >>, 4) }

Infos == PlainInfos \cup BitfieldInfos \cup BadInfos

\* The definitions also run as a big-endian build: those whose writes are
\* confined to the low byte or refused altogether.
BigEndianHostInfos ==
    { i \in Infos : i.size_bits \in { 8, 16 } \/ i.rw_mode = { "READ" } }

(***************************************************************************)
(* The state machine.                                                      *)
(***************************************************************************)
Sizes == { 1, 2, 4, 8 }

\* The (offset, size) windows that lie in the 8-byte storage.
Windows == { w \in (0 .. 7) \X Sizes : w[1] + w[2] <= 8 }

\* Values a write is given: 0x8877665544332219 and 0xA3.
InValues ==
    { U64(<< 25, 34, 51, 68, 85, 102, 119, 136 >>),
      U64(<< 163 >>) }

\* A callback that returns nothing.
Ran(op) == [op |-> op, offset |-> 0, size |-> 0, ll |-> {}]

\* The register as constructed from one definition, not yet realized.
Init ==
    \E i \in Infos :
        LET st == peripheral_register_new(i, i.register_size_bytes)
        IN  /\ info = i
            /\ (is_little_endian = TRUE \/ is_little_endian = FALSE)
            /\ \/ host_little_endian = TRUE
               \/ i \in BigEndianHostInfos /\ host_little_endian = FALSE
            /\ realized = "configured"
            /\ size_bits = st.size_bits
            /\ reset_value = st.reset_value
            /\ readable_bits = st.readable_bits
            /\ writable_bits = st.writable_bits
            /\ is_readable = st.is_readable
            /\ is_writable = st.is_writable
            /\ bitfields = st.bitfields
            /\ auto_bits = st.auto_bits
            /\ value = st.value
            /\ last_access = Ran("none")
            /\ steps = 0

PERIPHERAL_REGISTER_DEFAULT_SIZE_BYTES == 4

\* peripheral_register_realize_callback
Realize(ub) ==
    /\ realized = "configured"
    /\ LET size == IF size_bits # 0 THEN size_bits
                   ELSE IF info.register_size_bytes # 0
                       THEN info.register_size_bytes * 8
                       ELSE PERIPHERAL_REGISTER_DEFAULT_SIZE_BYTES
           validate_tmp == ValidateChildren(bitfields, ValidateTmp0, 1)
           has_bitfields == validate_tmp.mask # {}
           readable ==
               IF ~is_readable THEN {}
               ELSE IF has_bitfields THEN readable_bits \cup validate_tmp.readable_bits
               ELSE IF readable_bits = {} THEN Bits64
               ELSE readable_bits
           writable ==
               IF ~is_writable THEN {}
               ELSE IF has_bitfields THEN writable_bits \cup validate_tmp.writable_bits
               ELSE IF writable_bits = {} THEN Bits64
               ELSE writable_bits
           overlay == validate_tmp.reset_value \cap validate_tmp.mask
           reset == (reset_value \cap Not64(overlay)) \cup overlay
           auto_tmp == CreateAutoArrayChildren(bitfields, AutoTmp0, 1, ub)
       IN  /\ size_bits' = size
           /\ IF validate_tmp.ret # 0
                 THEN /\ realized' = "failed"
                      /\ UNCHANGED << reset_value, readable_bits, writable_bits,
                                      auto_bits >>
                 ELSE /\ readable_bits' = readable
                      /\ writable_bits' = writable
                      /\ reset_value' = reset
                      /\ auto_bits' = IF auto_tmp.ret # 0 THEN << >>
                                      ELSE BuildAutoBits(auto_tmp)
                      /\ realized' = IF auto_tmp.fault THEN "crashed"
                                     ELSE IF auto_tmp.ret # 0 THEN "failed"
                                     ELSE "realized"
    /\ UNCHANGED << constructVars, value, last_access, steps >>

\* Reset with the assignment to state->value left out.
Reset_ValueKept ==
    /\ realized \in { "realized", "operational" }
    /\ realized' = "operational"
    /\ last_access' = Ran("reset")
    /\ UNCHANGED << constructVars, realizeVars, value, steps >>

\* peripheral_register_reset_callback
Reset ==
    /\ realized \in { "realized", "operational" }
    /\ value' = reset_value
    /\ realized' = "operational"
    /\ last_access' = Ran("reset")
    /\ UNCHANGED << constructVars, realizeVars, steps >>

\* peripheral_register_write_callback
Write(offset, size, in, stray, ub) ==
    /\ realized = "operational"
    /\ steps < MaxSteps
    /\ value' = peripheral_register_write_callback(offset, size, in, stray, ub)
    /\ last_access' = Ran("write")
    /\ steps' = steps + 1
    /\ UNCHANGED << constructVars, realizeVars, realized >>

\* peripheral_register_read_callback
Read(offset, size, stray) ==
    /\ realized = "operational"
    /\ steps < MaxSteps
    /\ last_access' = [op |-> "read", offset |-> offset, size |-> size,
                       ll |-> peripheral_register_read_callback(offset, size, stray)]
    /\ steps' = steps + 1
    /\ UNCHANGED << constructVars, realizeVars, realized, value >>

\* peripheral_register_get_value
GetValue ==
    /\ realized = "operational"
    /\ steps < MaxSteps
    /\ last_access' = [op |-> "get", offset |-> 0, size |-> 8,
                       ll |-> peripheral_register_get_value]
    /\ steps' = steps + 1
    /\ UNCHANGED << constructVars, realizeVars, realized, value >>

\* The stray bytes a read can meet: a choice only when it loads past tmp.
ReadStrays(offset, size) ==
    IF \E i \in 0 .. (size - 1) : ReadSrcIndex(i, offset) \notin 0 .. 7
        THEN StrayBytes ELSE { {} }

\* The stray bytes a write can meet: a choice only when it loads past in_value.
WriteStrays(size) ==
    IF \E i \in 0 .. (size - 1) : WriteSrcIndex(i) \notin 0 .. 7
        THEN StrayBytes ELSE { {} }

\* The shifter outcomes a write can meet: a choice only with a negative shift.
ShiftOutcomes ==
    IF \E k \in 1 .. Len(auto_bits) : auto_bits[k].shift < 0
        THEN NegShiftOutcomes ELSE { "count_mod_64" }

\* The strcmp outcomes realize() can meet: a choice only when a set_by
\* bitfield makes it search for its (unset) cleared_by name.
StrcmpOutcomes ==
    IF \E k \in 1 .. Len(bitfields) :
          /\ bitfields[k].follows = NULL
          /\ bitfields[k].cleared_by = NULL
          /\ bitfields[k].set_by # NULL
        THEN StrcmpNullOutcomes ELSE { "no_match" }

Next ==
    \/ \E ub \in StrcmpOutcomes : Realize(ub)
    \/ Reset
    \/ \E w \in Windows, in \in InValues :
          \E stray \in WriteStrays(w[2]), ub \in ShiftOutcomes :
              Write(w[1], w[2], in, stray, ub)
    \/ \E w \in Windows : \E stray \in ReadStrays(w[1], w[2]) :
          Read(w[1], w[2], stray)
    \/ GetValue

Spec == Init /\ [][Next]_vars

(***************************************************************************)
(* Vocabulary of the properties.                                           *)
(***************************************************************************)
\* The register has been realized without error.
IsRealized == realized \in { "realized", "operational" }

\* The bits of v inside bitfield bifi, moved down to position 0.
FieldValue(v, bifi) == Shr(v \cap bifi.mask, bifi.first_bit)

\* Index of the sibling called name, 0 when there is none.
Sibling(name) ==
    IF \E k \in 1 .. Len(bitfields) : bitfields[k].name = name
        THEN CHOOSE k \in 1 .. Len(bitfields) : bitfields[k].name = name
        ELSE 0

\* Width in bits of bitfield bifi.
FieldWidth(bifi) == bifi.last_bit - bifi.first_bit + 1

\* The bits a table entry is meant to rewrite: its mask moved by its shift,
\* left when positive and right by the magnitude when negative.
EntryDestination(ab) ==
    IF ab.shift >= 0 THEN Shl(ab.mask, ab.shift) ELSE Shr(ab.mask, -ab.shift)

\* The bits some entry of the compiled table is meant to rewrite.
RuleDestinations ==
    UNION { EntryDestination(auto_bits[k]) : k \in 1 .. Len(auto_bits) }

(***************************************************************************)
(* C1: every bit outside writableBits has the same value after a write as  *)
(* before it, whatever rules are compiled; with writableBits == 0 a write  *)
(* never changes value.                                                    *)
(***************************************************************************)
C1_NonWritableBitsKept ==
    [][last_access'.op = "write"
         => (value' \ writable_bits) = (value \ writable_bits)]_vars

\* C1 as amended: every bit outside writableBits that no compiled rule is
\* meant to rewrite has the same value after a write as before it; with
\* writableBits == 0 and no rule table a write never changes value.
C1_UnruledNonWritableBitsKept ==
    [][last_access'.op = "write"
         => /\ (value' \ (writable_bits \cup RuleDestinations))
                 = (value \ (writable_bits \cup RuleDestinations))
            /\ (writable_bits = {} /\ auto_bits = << >>) => value' = value]_vars

\* A write has changed a register that has rules and set bits that are
\* neither writable nor rewritten by a rule.
C1_Witness ==
    /\ last_access.op = "write"
    /\ auto_bits # << >>
    /\ value \ (writable_bits \cup RuleDestinations) # {}
    /\ value # reset_value

(***************************************************************************)
(* C2: getValue() and read() return only bits set in readableBits: the     *)
(* result of getValue() lies inside readableBits; each byte of a read      *)
(* result holds only bits readable in the register byte it was copied      *)
(* from; a read of a register with readableBits == 0 returns 0; and the    *)
(* bytes of a read result beyond its width are zero.                       *)
(***************************************************************************)
C2_OnlyReadableBitsReturned ==
    /\ last_access.op = "get" => last_access.ll \subseteq readable_bits
    /\ last_access.op = "read" =>
          /\ \A i \in 0 .. (last_access.size - 1) :
                ReadSrcIndex(i, last_access.offset) \in 0 .. 7
                   => UnionGet(last_access.ll, ReadDstIndex(i), {})
                         \subseteq UnionGet(readable_bits,
                                            ReadSrcIndex(i, last_access.offset), {})
          /\ readable_bits = {} => last_access.ll = {}
          /\ last_access.ll \subseteq 0 .. (8 * last_access.size - 1)

(***************************************************************************)
(* C3: a bitfield that follows a sibling above it (negative delta) holds   *)
(* the sibling's bits after every write.                                   *)
(***************************************************************************)
C3_FollowsBelowMirrors ==
    last_access.op = "write" =>
        \A k \in 1 .. Len(bitfields) :
            LET b == bitfields[k]
                r == bitfields[Sibling(b.follows)]
            IN  (b.follows # NULL /\ Sibling(b.follows) # 0
                 /\ b.first_bit < r.first_bit /\ FieldWidth(b) = FieldWidth(r))
                    => FieldValue(value, b) = FieldValue(value, r)

(***************************************************************************)
(* C4: in a register whose follows relationships all have positive delta   *)
(* and equal widths (chains and pairs sharing a shift distance included),  *)
(* every referencing bitfield holds the referenced bitfield's bits after   *)
(* every write.                                                            *)
(***************************************************************************)
\* Bitfield b follows an existing sibling of its width that lies below it.
FollowsFromAbove(b) ==
    /\ b.follows # NULL
    /\ Sibling(b.follows) # 0
    /\ b.first_bit > bitfields[Sibling(b.follows)].first_bit
    /\ FieldWidth(b) = FieldWidth(bitfields[Sibling(b.follows)])

C4_FollowsAboveMirrors ==
    (/\ last_access.op = "write"
     /\ \A k \in 1 .. Len(bitfields) :
           bitfields[k].follows # NULL => FollowsFromAbove(bitfields[k]))
        => \A k \in 1 .. Len(bitfields) :
              bitfields[k].follows # NULL
                 => FieldValue(value, bitfields[k])
                      = FieldValue(value, bitfields[Sibling(bitfields[k].follows)])

(***************************************************************************)
(* C5: for a bitfield C cleared by a sibling D of its width, after any     *)
(* write that leaves D's bits nonzero all of C's bits are zero.            *)
(***************************************************************************)
C5_ClearedByClears ==
    last_access.op = "write" =>
        \A k \in 1 .. Len(bitfields) :
            LET c == bitfields[k]
                d == bitfields[Sibling(c.cleared_by)]
            IN  (c.follows = NULL /\ c.cleared_by # NULL /\ Sibling(c.cleared_by) # 0
                 /\ FieldWidth(c) = FieldWidth(d) /\ FieldValue(value, d) # {})
                    => FieldValue(value, c) = {}

(***************************************************************************)
(* C6: a bitfield S with setBy = T, T an existing sibling, passes          *)
(* validation; the table holds a SET_BY entry with T's mask and shift      *)
(* S.firstBit - T.firstBit, and after a write that leaves T's bits nonzero *)
(* the corresponding bits of S are set.                                    *)
(***************************************************************************)
\* No two bitfields of the register share a bit.
MasksDisjoint ==
    \A j, k \in 1 .. Len(bitfields) :
        j # k => bitfields[j].mask \cap bitfields[k].mask = {}

\* The sibling name bitfield b declares, by the kind it declares first.
DeclaredTarget(b) ==
    IF b.follows # NULL THEN b.follows
    ELSE IF b.cleared_by # NULL THEN b.cleared_by
    ELSE b.set_by

\* Every declared relationship names an existing sibling.
TargetsExist ==
    \A k \in 1 .. Len(bitfields) :
        DeclaredTarget(bitfields[k]) # NULL => Sibling(DeclaredTarget(bitfields[k])) # 0

\* Bitfield b declares set_by and nothing else.
SetByOnly(b) == b.follows = NULL /\ b.cleared_by = NULL /\ b.set_by # NULL

C6_SetByResolved ==
    (realized # "configured" /\ MasksDisjoint /\ TargetsExist) =>
        \A k \in 1 .. Len(bitfields) :
            LET b == bitfields[k]
                t == bitfields[Sibling(b.set_by)]
                delta == b.first_bit - t.first_bit
            IN  SetByOnly(b) =>
                  /\ IsRealized
                  /\ \E e \in 1 .. Len(auto_bits) :
                        /\ auto_bits[e].type = "SET_BY"
                        /\ auto_bits[e].mask = t.mask
                        /\ auto_bits[e].shift = delta
                  /\ (last_access.op = "write" /\ delta > 0)
                        => Shl(value \cap t.mask, delta) \subseteq value

(***************************************************************************)
(* C7: when two sibling bitfields overlap, validation reports an error,    *)
(* leaves masks, reset value and rule table as constructed, and the        *)
(* register never reaches the realized state.                              *)
(***************************************************************************)
C7_OverlapFailsValidation ==
    ~MasksDisjoint =>
        /\ ~IsRealized
        /\ realized \in { "configured", "failed" }
        /\ readable_bits = info.readable_bits
        /\ writable_bits = {}
        /\ reset_value = info.reset_value
        /\ auto_bits = << >>

\* Validation has run on overlapping bitfields and failed.
C7_Witness == ~MasksDisjoint /\ realized = "failed"

(***************************************************************************)
(* C8: a follows, clearedBy or setBy that names a sibling that does not    *)
(* exist makes validation fail with a configuration error, and no rule     *)
(* table is installed.                                                     *)
(***************************************************************************)
C8_DanglingFailsValidation ==
    (realized # "configured" /\ MasksDisjoint /\ ~TargetsExist)
        => realized = "failed" /\ auto_bits = << >>

(***************************************************************************)
(* C9: on a little-endian guest and host, with every bit writable and no   *)
(* rules, the value a write of size bytes at offset commits has stored     *)
(* bytes offset .. offset+size-1 equal to the incoming bytes and every     *)
(* other stored byte as it was.                                            *)
(***************************************************************************)
\* The byte of significance p (0 = least) of v.
ByteOf(v, p) == { b - 8 * p : b \in v \cap ByteLane(p) }

C9_LittleEndianByteMerge ==
    (/\ realized = "operational"
     /\ is_little_endian /\ host_little_endian
     /\ writable_bits = Bits64 /\ auto_bits = << >>)
        => \A w \in Windows, in \in InValues :
              LET committed == peripheral_register_write_callback(
                                   w[1], w[2], in, {}, "count_mod_64")
              IN  \A p \in 0 .. 7 :
                     ByteOf(committed, p) =
                         IF p \in w[1] .. (w[1] + w[2] - 1)
                             THEN ByteOf(in, p - w[1])
                             ELSE ByteOf(value, p)

\* The 32-bit register reset to 0x12345678 after the two low bytes 0x19,
\* 0x22 were written at offset 1: 0x12221978.
C9_Witness ==
    /\ last_access.op = "write"
    /\ is_little_endian /\ host_little_endian
    /\ writable_bits = Bits64 /\ auto_bits = << >>
    /\ size_bits = 32
    /\ value = U64(<< 120, 25, 34, 18 >>)

(***************************************************************************)
(* C10: with every bit readable and writable and no rules, for both guest  *)
(* byte orders a read of the window, made on the value a write commits,    *)
(* returns the bytes that were written.                                    *)
(***************************************************************************)
C10_WriteReadRoundTrip ==
    (/\ realized = "operational"
     /\ readable_bits = Bits64 /\ writable_bits = Bits64 /\ auto_bits = << >>)
        => \A w \in Windows, in \in InValues :
              \A wstray \in WriteStrays(w[2]), rstray \in ReadStrays(w[1], w[2]) :
                 LET committed == peripheral_register_write_callback(
                                      w[1], w[2], in, wstray, "count_mod_64")
                 IN  ReadValue(committed, w[1], w[2], rstray)
                        = in \cap (0 .. (8 * w[2] - 1))

(***************************************************************************)
(* C11: after every reset(), whatever writes, reads and resets came        *)
(* before it, value equals the realized reset value.                       *)
(***************************************************************************)
C11_ResetRestoresValue ==
    last_access.op = "reset" => value = reset_value

\* A reset has run after runtime accesses on a register that takes writes
\* and whose reset value is not the value it was constructed with.
C11_Witness ==
    /\ last_access.op = "reset"
    /\ steps = MaxSteps
    /\ writable_bits # {}
    /\ reset_value # {}
    /\ value = reset_value

(***************************************************************************)
(* C12: once the register is realized, read() and getValue() leave value,  *)
(* reset value, masks and rule table as they were, so that a read repeated *)
(* with the same offset and width, with no write or reset in between,      *)
(* returns the same bytes; write() and reset() leave reset value, masks    *)
(* and rule table as they were.                                            *)
(***************************************************************************)
\* This step is a read() or a getValue().
ReadStep == last_access'.op \in { "read", "get" } /\ steps' = steps + 1

\* This step is a read() of the window the previous access read.
RepeatedRead ==
    /\ ReadStep
    /\ last_access.op = "read" /\ last_access'.op = "read"
    /\ last_access'.offset = last_access.offset
    /\ last_access'.size = last_access.size

C12_RuntimeFrame ==
    [][IsRealized =>
          /\ UNCHANGED << reset_value, readable_bits, writable_bits, auto_bits >>
          /\ ReadStep => value' = value
          /\ RepeatedRead => last_access'.ll = last_access.ll]_vars

(***************************************************************************)
(* C13: after validation readableBits and writableBits hold no bit at      *)
(* position >= sizeBits, and in every state reached by reset and writes    *)
(* value holds no bit at position >= sizeBits.                             *)
(***************************************************************************)
\* The bit positions of a register of width size_bits.
WidthBits == 0 .. (size_bits - 1)

C13_WidthConfinement ==
    /\ IsRealized => readable_bits \subseteq WidthBits
                     /\ writable_bits \subseteq WidthBits
    /\ realized = "operational" => value \subseteq WidthBits

(***************************************************************************)
(* C14: a register without bitfields that is marked writable and declares  *)
(* a nonzero writable mask W has writableBits == W after validation, and   *)
(* all bits writable only when it declares no mask; likewise for the       *)
(* readable mask.                                                          *)
(***************************************************************************)
\* The mask validation is to leave for a declared mask and a capability flag.
ExpectedMask(declared, capable) ==
    IF ~capable THEN {} ELSE IF declared # {} THEN declared ELSE Bits64

C14_ExplicitMasksKept ==
    (IsRealized /\ info.bitfields = << >>)
        => /\ writable_bits = ExpectedMask(info.writable_bits, is_writable)
           /\ readable_bits = ExpectedMask(info.readable_bits, is_readable)

(***************************************************************************)
(* C15: the compiled table holds one entry per (kind, direction,           *)
(* magnitude) some bitfield declares, its mask the OR of the referenced    *)
(* masks of that tuple, in ascending order of magnitude and, within a      *)
(* magnitude, left FOLLOWS, right FOLLOWS, left CLEARED_BY, right          *)
(* CLEARED_BY, left SET_BY, right SET_BY, then a zero-mask sentinel; the   *)
(* pass a write makes over it applies every entry and stops at the         *)
(* sentinel.                                                               *)
(***************************************************************************)
\* The kind of the relationship bitfield b declares.
DeclaredKind(b) ==
    IF b.follows # NULL THEN "FOLLOWS"
    ELSE IF b.cleared_by # NULL THEN "CLEARED_BY"
    ELSE "SET_BY"

\* The signed distance from the sibling bitfield b names to b.
DeclaredDelta(b) == b.first_bit - bitfields[Sibling(DeclaredTarget(b))].first_bit

\* The OR of the masks referenced with kind type at signed distance shift.
TupleMask(type, shift) ==
    UNION { bitfields[Sibling(DeclaredTarget(bitfields[k]))].mask :
              k \in { j \in 1 .. Len(bitfields) :
                        /\ DeclaredTarget(bitfields[j]) # NULL
                        /\ DeclaredKind(bitfields[j]) = type
                        /\ DeclaredDelta(bitfields[j]) = shift } }

\* Place of an entry in the order of execution.
KindRank(type) ==
    IF type = "FOLLOWS" THEN 0 ELSE IF type = "CLEARED_BY" THEN 2 ELSE 4

EntryRank(ab) ==
    IF ab.shift >= 0 THEN 6 * ab.shift + KindRank(ab.type)
    ELSE 6 * (-ab.shift) + KindRank(ab.type) + 1

\* The tuples some bitfield declares with a nonzero distance.
DeclaredTuples ==
    { << DeclaredKind(bitfields[k]), DeclaredDelta(bitfields[k]) >> :
        k \in { j \in 1 .. Len(bitfields) :
                  /\ DeclaredTarget(bitfields[j]) # NULL
                  /\ DeclaredDelta(bitfields[j]) # 0 } }

\* The number of entries the loop of a write applies before it stops.
EntriesApplied ==
    IF \E k \in 1 .. Len(auto_bits) : auto_bits[k].mask = {}
        THEN (CHOOSE k \in 1 .. Len(auto_bits) :
                 /\ auto_bits[k].mask = {}
                 /\ \A j \in 1 .. (k - 1) : auto_bits[j].mask # {}) - 1
        ELSE Len(auto_bits)

C15_TableOrdered ==
    IsRealized =>
        LET n == Len(auto_bits)
        IN  /\ DeclaredTuples = {} <=> n = 0
            /\ n > 0 => auto_bits[n].mask = {} /\ auto_bits[n].shift = 0
            /\ \A k \in 1 .. (n - 1) :
                  /\ << auto_bits[k].type, auto_bits[k].shift >> \in DeclaredTuples
                  /\ auto_bits[k].mask = TupleMask(auto_bits[k].type, auto_bits[k].shift)
                  /\ auto_bits[k].mask # {}
                  /\ \A j \in 1 .. (k - 1) :
                        EntryRank(auto_bits[j]) < EntryRank(auto_bits[k])
            /\ \A t \in DeclaredTuples :
                  \E k \in 1 .. (n - 1) :
                     auto_bits[k].type = t[1] /\ auto_bits[k].shift = t[2]
            /\ n > 0 => EntriesApplied = n - 1

\* A write has run the table that holds a left FOLLOWS, a right FOLLOWS and
\* a left CLEARED_BY entry of one magnitude.
C15_Witness ==
    /\ last_access.op = "write"
    /\ Len(auto_bits) = 4
    /\ { << auto_bits[k].type, auto_bits[k].shift >> : k \in 1 .. 3 }
          = { << "FOLLOWS", 2 >>, << "FOLLOWS", -2 >>, << "CLEARED_BY", 2 >> }

(***************************************************************************)
(* C16: for a register with bitfields, every bit of the realized reset     *)
(* value inside the union of the bitfield masks equals the bit of the      *)
(* bitfield composite ((resetValue << firstBit) & mask of each bitfield),  *)
(* also where the bitfield declares 0 and the register declares 1; the     *)
(* bits outside the union keep the register's declared reset value.        *)
(***************************************************************************)
\* The union of the bitfield masks.
BitfieldsMask == UNION { bitfields[k].mask : k \in 1 .. Len(bitfields) }

\* The reset values of the bitfields, each at its place.
BitfieldsResetValue ==
    UNION { Shl(bitfields[k].reset_value, bitfields[k].first_bit) \cap bitfields[k].mask :
              k \in 1 .. Len(bitfields) }

C16_ResetOverlay ==
    (IsRealized /\ bitfields # << >>)
        => /\ reset_value \cap BitfieldsMask = BitfieldsResetValue
           /\ reset_value \ BitfieldsMask = info.reset_value \ BitfieldsMask

(***************************************************************************)
(* C17: for every read and write of 1, 2, 4 or 8 bytes at an offset with   *)
(* offset + size <= 8, and both guest byte orders, every index the         *)
(* callbacks use on the guest bytes and on the host bytes lies in 0..7.    *)
(***************************************************************************)
C17_CodecIndexesInRange ==
    realized = "operational" =>
        \A w \in Windows : \A i \in 0 .. (w[2] - 1) :
            /\ ReadSrcIndex(i, w[1]) \in 0 .. 7
            /\ ReadDstIndex(i) \in 0 .. 7
            /\ WriteDstIndex(i, w[1]) \in 0 .. 7
            /\ WriteSrcIndex(i) \in 0 .. 7

====
